---------------------------- MODULE Spec2Model ----------------------------
(***************************************************************************)
(* Model of the bet365 mirror service in src/main.go: the two tables       *)
(* (games, liveodds), the /sync-games and /update-liveodds handlers, the   *)
(* upstream decoders and the odds-format converter.                        *)
(*                                                                         *)
(* Text that the program parses (odds, epoch seconds) is a sequence of     *)
(* one-character strings; text it only copies (ids, names) is a string.    *)
(* Time is counted in ticks, TicksPerDay ticks to a calendar day.          *)
(***************************************************************************)
EXTENDS Integers, Sequences, FiniteSets, TLC

VARIABLES
    games,      \* table games: a set of rows
    liveodds,   \* table liveodds: a set of rows
    now,        \* the clock, in ticks
    resp,       \* the last HTTP response of a handler
    feeds,      \* /sync-games: the results of the four upstream fetches of the last run
    all,        \* /sync-games: the list fetchAllGames returned in the last run
    dbres,      \* /sync-games: what the store did in the last run
    run,        \* /update-liveodds: the locals of the run in progress
    stream,     \* fetchLiveOdds: the decoded "results" of the response
    odds,       \* fetchLiveOdds: the list it returned
    phase,      \* where the handler or call in progress stands
    call,       \* the last direct call of a store operation
    text,       \* fracToDecimal: its argument
    conv,       \* fracToDecimal: what it returned
    procs,      \* concurrent /sync-games handlers: the locals of each
    api         \* /api/games: the list it answered with

vars ==
    <<games, liveodds, now, resp, feeds, all, dbres, run, stream, odds, phase, call, text, conv,
      procs, api>>

(***************************************************************************)
(* Bounds                                                                  *)
(***************************************************************************)
MaxStreamLen == 3     \* records in a liveodds response
TicksPerDay == 2      \* clock ticks per calendar day
MaxNow == 3           \* the last tick of the clock
MaxTextLen == 4       \* characters in an argument of fracToDecimal

(***************************************************************************)
(* Text helpers: strings.TrimSpace, strings.Split, strconv.ParseInt,       *)
(* strconv.ParseFloat, strconv.FormatFloat                                 *)
(***************************************************************************)
DigitChars == <<"0", "1", "2", "3", "4", "5", "6", "7", "8", "9">>

IsDigit(c) == \E d \in 1..10 : DigitChars[d] = c

DigitVal(c) == (CHOOSE d \in 1..10 : DigitChars[d] = c) - 1

IsSpace(c) == c \in {" ", "\t"}

RECURSIVE TrimLeft(_)
TrimLeft(s) ==
    IF s # <<>> /\ IsSpace(Head(s)) THEN TrimLeft(Tail(s)) ELSE s

RECURSIVE TrimRight(_)
TrimRight(s) ==
    IF s # <<>> /\ IsSpace(s[Len(s)]) THEN TrimRight(SubSeq(s, 1, Len(s) - 1)) ELSE s

TrimSpace(s) == TrimRight(TrimLeft(s))

RECURSIVE Split(_, _)
Split(s, sep) ==
    IF \A i \in 1..Len(s) : s[i] # sep
    THEN <<s>>
    ELSE LET i == CHOOSE k \in 1..Len(s) : s[k] = sep /\ \A j \in 1..(k - 1) : s[j] # sep
         IN  <<SubSeq(s, 1, i - 1)>> \o Split(SubSeq(s, i + 1, Len(s)), sep)

RECURSIVE DigitsVal(_)
DigitsVal(s) ==
    IF s = <<>> THEN 0 ELSE 10 * DigitsVal(SubSeq(s, 1, Len(s) - 1)) + DigitVal(s[Len(s)])

RECURSIVE Pow10(_)
Pow10(k) == IF k = 0 THEN 1 ELSE 10 * Pow10(k - 1)

RECURSIVE NatToChars(_)
NatToChars(n) ==
    IF n < 10 THEN <<DigitChars[n + 1]>> ELSE NatToChars(n \div 10) \o <<DigitChars[(n % 10) + 1]>>

HasSign(s) == s # <<>> /\ Head(s) \in {"+", "-"}

Unsigned(s) == IF HasSign(s) THEN Tail(s) ELSE s

\* strconv.ParseInt(s, 10, 64) on the texts of the model (no overflow within the bounds)
ParseInt(s) ==
    LET body == Unsigned(s)
        good == body # <<>> /\ \A i \in 1..Len(body) : IsDigit(body[i])
    IN  IF ~good THEN [ok |-> FALSE, val |-> 0]
        ELSE [ok |-> TRUE,
              val |-> IF HasSign(s) /\ Head(s) = "-" THEN 0 - DigitsVal(body) ELSE DigitsVal(body)]

\* strconv.ParseFloat(s, 64) on decimal texts [sign] digits [. digits]: the value is
\* (IF neg THEN -1 ELSE 1) * num / 10^scale
ParseFloat(s) ==
    LET body == Unsigned(s)
        dots == {i \in 1..Len(body) : body[i] = "."}
        digs == SelectSeq(body, IsDigit)
        good == /\ Cardinality(dots) <= 1
                /\ Len(digs) >= 1
                /\ Len(digs) + Cardinality(dots) = Len(body)
    IN  IF ~good THEN [ok |-> FALSE, neg |-> FALSE, num |-> 0, scale |-> 0]
        ELSE [ok |-> TRUE,
              neg |-> HasSign(s) /\ Head(s) = "-",
              num |-> DigitsVal(digs),
              scale |-> IF dots = {} THEN 0 ELSE Len(body) - (CHOOSE i \in dots : TRUE)]

\* strconv.FormatFloat(d, 'f', -1, 64) of d = (IF neg THEN -1 ELSE 1) * r / 1000
FormatFloat(neg, r) ==
    LET ip == r \div 1000
        fp == r % 1000
        d3 == <<DigitChars[(fp \div 100) + 1], DigitChars[((fp \div 10) % 10) + 1],
                DigitChars[(fp % 10) + 1]>>
        keep == IF fp % 10 # 0 THEN 3 ELSE IF fp % 100 # 0 THEN 2 ELSE 1
    IN  (IF neg THEN <<"-">> ELSE <<>>) \o NatToChars(ip)
            \o (IF fp = 0 THEN <<>> ELSE <<".">> \o SubSeq(d3, 1, keep))

(***************************************************************************)
(* Helpers of main.go                                                      *)
(***************************************************************************)
Null == [null |-> TRUE]

Time(t) == [null |-> FALSE, t |-> t]

parseUnixMaybe(s) ==
    LET t == TrimSpace(s)
        p == ParseInt(t)
    IN  IF t = <<>> THEN Null
        ELSE IF ~p.ok \/ p.val <= 0 THEN Null
        ELSE Time(p.val)

\* math.Round(d*1000)/1000 for d = 1 + a/b, computed exactly. The float64 result is the
\* exactly rounded one on every text of the model; the shortest texts on which float64
\* lands below an exact tie are six characters long (".353/2" gives 1.176, "69/400" gives
\* 1.172).
fracToDecimalMutTrunc(oddsText) ==
    LET t == TrimSpace(oddsText)
        parts == Split(t, "/")
        fail == [dec |-> <<>>, frac |-> t, ok |-> FALSE]
    IN  IF Len(parts) # 2 THEN fail
        ELSE LET a == ParseFloat(parts[1])
                 b == ParseFloat(parts[2])
             IN  IF ~a.ok \/ ~b.ok \/ b.num = 0 THEN fail
                 ELSE LET n == a.num * Pow10(b.scale)
                          d == b.num * Pow10(a.scale)
                          s == IF a.neg = b.neg THEN 1 ELSE 0 - 1
                          p == 1000 * (d + s * n)
                          ap == IF p < 0 THEN 0 - p ELSE p
                          r == ap \div d
                      IN  [dec |-> FormatFloat(p < 0, r), frac |-> t, ok |-> TRUE]

fracToDecimal(oddsText) ==
    LET t == TrimSpace(oddsText)
        parts == Split(t, "/")
        fail == [dec |-> <<>>, frac |-> t, ok |-> FALSE]
    IN  IF Len(parts) # 2 THEN fail
        ELSE LET a == ParseFloat(parts[1])
                 b == ParseFloat(parts[2])
             IN  IF ~a.ok \/ ~b.ok \/ b.num = 0 THEN fail
                 ELSE LET n == a.num * Pow10(b.scale)
                          d == b.num * Pow10(a.scale)
                          s == IF a.neg = b.neg THEN 1 ELSE 0 - 1
                          p == 1000 * (d + s * n)
                          ap == IF p < 0 THEN 0 - p ELSE p
                          r == (2 * ap + d) \div (2 * d)
                      IN  [dec |-> FormatFloat(p < 0, r), frac |-> t, ok |-> TRUE]

(***************************************************************************)
(* JSON values of the loosely typed decodes, and fmt.Sprintf("%v", v)      *)
(***************************************************************************)
JStr(x) == [t |-> "str", v |-> x]

JNull == [t |-> "null"]

\* item[key] of a map[string]any: nil when the key is absent
Lookup(item, key) == IF key \in DOMAIN item THEN item[key] ELSE JNull

\* Sprintf("%v", v) where the text is only copied
SprintfV(v) == IF v.t = "null" THEN "<nil>" ELSE v.v

\* Sprintf("%v", v) where the text is parsed later
SprintfChars(v) == IF v.t = "null" THEN <<"<", "n", "i", "l", ">">> ELSE v.v

OddsKeys == <<"OD", "ODD", "ODDS">>

getOddsFieldMutFirstLast(item) ==
    IF \A i \in 1..Len(OddsKeys) : OddsKeys[i] \notin DOMAIN item
    THEN [s |-> <<>>, ok |-> FALSE]
    ELSE LET i == CHOOSE k \in 1..Len(OddsKeys) :
                      /\ OddsKeys[k] \in DOMAIN item
                      /\ \A j \in (k + 1)..Len(OddsKeys) : OddsKeys[j] \notin DOMAIN item
         IN  [s |-> SprintfChars(item[OddsKeys[i]]), ok |-> TRUE]

getOddsField(item) ==
    IF \A i \in 1..Len(OddsKeys) : OddsKeys[i] \notin DOMAIN item
    THEN [s |-> <<>>, ok |-> FALSE]
    ELSE LET i == CHOOSE k \in 1..Len(OddsKeys) :
                      /\ OddsKeys[k] \in DOMAIN item
                      /\ \A j \in 1..(k - 1) : OddsKeys[j] \notin DOMAIN item
         IN  [s |-> SprintfChars(item[OddsKeys[i]]), ok |-> TRUE]

\* json.Marshal of a map[string]any: the members in sorted key order
KeyOrder == <<"HA", "ID", "NA", "OD", "ODD", "ODDS", "type">>

JsonMarshal(item) ==
    LET present(k) == k \in DOMAIN item
        ks == SelectSeq(KeyOrder, present)
    IN  [i \in 1..Len(ks) |-> <<ks[i], item[ks[i]]>>]

(***************************************************************************)
(* fetchLiveOdds: the fold over the decoded results                        *)
(***************************************************************************)
Bookmaker == "bet365"

NoMarket == [id |-> "", name |-> "", out |-> <<>>]

\* a record of another type clears the current market
OddsItemMutOther(acc, item, gameID, sport, at) ==
    LET type == SprintfV(Lookup(item, "type"))
    IN  IF type = "MG"
        THEN [acc EXCEPT !.id = SprintfV(Lookup(item, "ID")),
                         !.name = SprintfV(Lookup(item, "NA"))]
        ELSE IF type = "PA"
        THEN LET f == getOddsField(item)
                 c == fracToDecimal(f.s)
             IN  IF ~f.ok THEN acc
                 ELSE [acc EXCEPT !.out = Append(@,
                        [GameID |-> gameID, Sport |-> sport, Bookmaker |-> Bookmaker,
                         MarketID |-> acc.id, MarketName |-> acc.name,
                         SelectionID |-> SprintfV(Lookup(item, "ID")),
                         SelectionName |-> SprintfV(Lookup(item, "NA")),
                         Line |-> SprintfV(Lookup(item, "HA")),
                         PriceDec |-> c.dec, PriceFrac |-> c.frac,
                         FetchedAt |-> at, Raw |-> JsonMarshal(item)])]
        ELSE [acc EXCEPT !.id = "", !.name = ""]

\* one iteration of the inner loop: acc carries currentMarketID, currentMarketName, odds
OddsItem(acc, item, gameID, sport, at) ==
    LET type == SprintfV(Lookup(item, "type"))
    IN  IF type = "MG"
        THEN [acc EXCEPT !.id = SprintfV(Lookup(item, "ID")),
                         !.name = SprintfV(Lookup(item, "NA"))]
        ELSE IF type = "PA"
        THEN LET f == getOddsField(item)
                 c == fracToDecimal(f.s)
             IN  IF ~f.ok THEN acc
                 ELSE [acc EXCEPT !.out = Append(@,
                        [GameID |-> gameID, Sport |-> sport, Bookmaker |-> Bookmaker,
                         MarketID |-> acc.id, MarketName |-> acc.name,
                         SelectionID |-> SprintfV(Lookup(item, "ID")),
                         SelectionName |-> SprintfV(Lookup(item, "NA")),
                         Line |-> SprintfV(Lookup(item, "HA")),
                         PriceDec |-> c.dec, PriceFrac |-> c.frac,
                         FetchedAt |-> at, Raw |-> JsonMarshal(item)])]
        ELSE acc

RECURSIVE OddsGroup(_, _, _, _, _)
OddsGroup(acc, group, gameID, sport, at) ==
    IF group = <<>> THEN acc
    ELSE OddsGroup(OddsItem(acc, Head(group), gameID, sport, at), Tail(group), gameID, sport, at)

RECURSIVE OddsGroupsMutPerGroup(_, _, _, _, _)
OddsGroupsMutPerGroup(acc, groups, gameID, sport, at) ==
    IF groups = <<>> THEN acc
    ELSE OddsGroupsMutPerGroup(
            OddsGroup([acc EXCEPT !.id = "", !.name = ""], Head(groups), gameID, sport, at),
            Tail(groups), gameID, sport, at)

RECURSIVE OddsGroups(_, _, _, _, _)
OddsGroups(acc, groups, gameID, sport, at) ==
    IF groups = <<>> THEN acc
    ELSE OddsGroups(OddsGroup(acc, Head(groups), gameID, sport, at), Tail(groups),
                    gameID, sport, at)

\* the list fetchLiveOdds returns for a response that decoded to results
fetchLiveOdds(gameID, sport, results, at) ==
    OddsGroups(NoMarket, results, gameID, sport, at).out

\* fetchLiveOdds on the upstream response r: (nil, err) when the GET or the decode failed,
\* (odds, nil) otherwise
FetchLiveOddsResult(gameID, sport, r, at) ==
    IF r.err THEN [err |-> TRUE, out |-> <<>>]
    ELSE [err |-> FALSE, out |-> fetchLiveOdds(gameID, sport, r.body, at)]


(***************************************************************************)
(* fetchPreGames, fetchLiveGames, fetchAllGames                            *)
(* An upstream response is [err |-> TRUE] when the GET or the JSON decode  *)
(* failed, and carries the decoded body otherwise.                         *)
(***************************************************************************)
\* upstream responses
FetchFailed == [err |-> TRUE, body |-> <<>>]

Fetched(b) == [err |-> FALSE, body |-> b]

\* what a fetcher returns on failure
FetchErr == [err |-> TRUE, out |-> <<>>]

JArr(items) == [t |-> "arr", v |-> items]

JMap(m) == [t |-> "map", v |-> m]

\* r.body: the decoded games_pre list of typed records
fetchPreGames(sport, r) ==
    IF r.err THEN FetchErr
    ELSE [err |-> FALSE,
          out |-> [i \in 1..Len(r.body) |->
                    LET g == r.body[i]
                    IN  [GameID |-> g.game_id, Sport |-> sport, Bookmaker |-> Bookmaker,
                         Source |-> "pre", League |-> g.league, Home |-> g.home,
                         Away |-> g.away, Scores |-> g.scores, TimeStatus |-> g.time_status,
                         StartsAt |-> parseUnixMaybe(g.time)]]]

LiveGameMutSource(sport, m) ==
    [GameID |-> SprintfV(Lookup(m, "game_id")), Sport |-> sport, Bookmaker |-> Bookmaker,
     Source |-> "pre", League |-> SprintfV(Lookup(m, "league")),
     Home |-> SprintfV(Lookup(m, "home")), Away |-> SprintfV(Lookup(m, "away")),
     Scores |-> SprintfV(Lookup(m, "scores")),
     TimeStatus |-> SprintfV(Lookup(m, "time_status")),
     StartsAt |-> parseUnixMaybe(SprintfChars(Lookup(m, "time")))]

LiveGame(sport, m) ==
    [GameID |-> SprintfV(Lookup(m, "game_id")), Sport |-> sport, Bookmaker |-> Bookmaker,
     Source |-> "live", League |-> SprintfV(Lookup(m, "league")),
     Home |-> SprintfV(Lookup(m, "home")), Away |-> SprintfV(Lookup(m, "away")),
     Scores |-> SprintfV(Lookup(m, "scores")),
     TimeStatus |-> SprintfV(Lookup(m, "time_status")),
     StartsAt |-> parseUnixMaybe(SprintfChars(Lookup(m, "time")))]

RECURSIVE LiveGames(_, _)
LiveGames(sport, items) ==
    IF items = <<>> THEN <<>>
    ELSE (IF Head(items).t = "map" THEN <<LiveGame(sport, Head(items).v)>> ELSE <<>>)
            \o LiveGames(sport, Tail(items))

\* r.body: the decoded root object, a map[string]any
fetchLiveGames(sport, r) ==
    IF r.err THEN FetchErr
    ELSE IF Lookup(r.body, "games").t # "arr" THEN [err |-> FALSE, out |-> <<>>]
    ELSE [err |-> FALSE, out |-> LiveGames(sport, r.body["games"].v)]

\* fs: the four upstream responses, in the order the requests are made
fetchAllGamesMutAbort(fs) ==
    LET r1 == fetchPreGames("soccer", fs[1])
        r2 == fetchPreGames("tennis", fs[2])
        r3 == fetchLiveGames("soccer", fs[3])
        r4 == fetchLiveGames("tennis", fs[4])
    IN  IF r1.err \/ r2.err \/ r3.err \/ r4.err THEN <<>>
        ELSE r1.out \o r2.out \o r3.out \o r4.out

\* the live feeds are fetched before the pre-match feeds
fetchAllGamesMutLiveFirst(fs) ==
    LET r1 == fetchPreGames("soccer", fs[1])
        r2 == fetchPreGames("tennis", fs[2])
        r3 == fetchLiveGames("soccer", fs[3])
        r4 == fetchLiveGames("tennis", fs[4])
    IN  (IF r3.err THEN <<>> ELSE r3.out) \o (IF r4.err THEN <<>> ELSE r4.out)
            \o (IF r1.err THEN <<>> ELSE r1.out) \o (IF r2.err THEN <<>> ELSE r2.out)

fetchAllGames(fs) ==
    LET r1 == fetchPreGames("soccer", fs[1])
        r2 == fetchPreGames("tennis", fs[2])
        r3 == fetchLiveGames("soccer", fs[3])
        r4 == fetchLiveGames("tennis", fs[4])
    IN  (IF r1.err THEN <<>> ELSE r1.out) \o (IF r2.err THEN <<>> ELSE r2.out)
            \o (IF r3.err THEN <<>> ELSE r3.out) \o (IF r4.err THEN <<>> ELSE r4.out)

(***************************************************************************)
(* The store. A fault is what goes wrong in one call: nothing, the prune   *)
(* DELETE failing, or the at-th statement of the batch failing; a failed   *)
(* batch is rolled back whole (atomic, the same table whichever statement  *)
(* failed) or keeps the statements before the failing one.                 *)
(***************************************************************************)
NoFault == [kind |-> "none", at |-> 0, atomic |-> TRUE]

PruneFault == [kind |-> "prune", at |-> 0, atomic |-> TRUE]

RowFault(k, atomic) == [kind |-> "row", at |-> k, atomic |-> atomic]

Faults(n) ==
    IF n = 0 THEN {NoFault}
    ELSE {NoFault, PruneFault, RowFault(n, TRUE)} \cup {RowFault(k, FALSE) : k \in 1..n}

\* CURRENT_DATE: midnight of the day of at
CurrentDate(at) == at - (at % TicksPerDay)

\* DELETE FROM games WHERE starts_at < CURRENT_DATE
PruneGamesMutNone(tbl, at) == tbl

\* a row without starts_at counts as old
PruneGamesMutNullStale(tbl, at) ==
    {r \in tbl : ~(r.starts_at.null \/ r.starts_at.t < CurrentDate(at))}

PruneGames(tbl, at) ==
    {r \in tbl : ~(~r.starts_at.null /\ r.starts_at.t < CurrentDate(at))}

GameRow(g, at) ==
    [game_id |-> g.GameID, sport |-> g.Sport, bookmaker |-> g.Bookmaker,
     source |-> g.Source, league |-> g.League, home_team |-> g.Home,
     away_team |-> g.Away, scores |-> g.Scores, time_status |-> g.TimeStatus,
     starts_at |-> g.StartsAt, updated_at |-> at]

\* INSERT INTO games ... ON CONFLICT (game_id) DO UPDATE SET ...
UpsertGameMutInsert(tbl, g, at) == tbl \cup {GameRow(g, at)}

UpsertGameMutKeep(tbl, g, at) ==
    IF \E r \in tbl : r.game_id = g.GameID THEN tbl ELSE tbl \cup {GameRow(g, at)}

\* ON CONFLICT updates every column but source
UpsertGameMutMerge(tbl, g, at) ==
    IF \E r \in tbl : r.game_id = g.GameID
    THEN {r \in tbl : r.game_id # g.GameID}
            \cup {[GameRow(g, at) EXCEPT !.source = r.source] : r \in {x \in tbl : x.game_id = g.GameID}}
    ELSE tbl \cup {GameRow(g, at)}

UpsertGame(tbl, g, at) ==
    {r \in tbl : r.game_id # g.GameID} \cup {GameRow(g, at)}

RECURSIVE UpsertGameBatch(_, _, _)
UpsertGameBatch(tbl, gs, at) ==
    IF gs = <<>> THEN tbl ELSE UpsertGameBatch(UpsertGame(tbl, Head(gs), at), Tail(gs), at)

\* upsertGames(pool, gs): the table afterwards, whether an error is returned, and the
\* number of rows the prune deleted
UpsertGamesAfterPruneMutSwallow(tbl, gs, at, fault) ==
    LET kept == PruneGames(tbl, at)
        gone == Cardinality(tbl \ kept)
    IN  IF fault.kind = "row"
        THEN [tbl |-> IF fault.atomic THEN kept
                      ELSE UpsertGameBatch(kept, SubSeq(gs, 1, fault.at - 1), at),
              err |-> FALSE, deleted |-> gone]
        ELSE [tbl |-> UpsertGameBatch(kept, gs, at), err |-> FALSE, deleted |-> gone]

UpsertGamesAfterPrune(tbl, gs, at, fault) ==
    LET kept == PruneGames(tbl, at)
        gone == Cardinality(tbl \ kept)
    IN  IF fault.kind = "row"
        THEN [tbl |-> IF fault.atomic THEN kept
                      ELSE UpsertGameBatch(kept, SubSeq(gs, 1, fault.at - 1), at),
              err |-> TRUE, deleted |-> gone]
        ELSE [tbl |-> UpsertGameBatch(kept, gs, at), err |-> FALSE, deleted |-> gone]

upsertGamesMutPruneAlways(tbl, gs, at, fault) ==
    IF fault.kind = "prune" THEN [tbl |-> tbl, err |-> TRUE, deleted |-> 0]
    ELSE UpsertGamesAfterPrune(tbl, gs, at, fault)

upsertGames(tbl, gs, at, fault) ==
    IF Len(gs) = 0 THEN [tbl |-> tbl, err |-> FALSE, deleted |-> 0]
    ELSE IF fault.kind = "prune" THEN [tbl |-> tbl, err |-> TRUE, deleted |-> 0]
    ELSE UpsertGamesAfterPrune(tbl, gs, at, fault)

\* the /sync-games handler: the response for the outcome u of upsertGames(db, a)
SyncGamesResponse(a, u) ==
    IF u.err THEN [code |-> 500, n |-> 0] ELSE [code |-> 200, n |-> Len(a)]

(***************************************************************************)
(* The liveodds table and the reads of /update-liveodds                    *)
(***************************************************************************)
\* DELETE FROM liveodds WHERE fetched_at < NOW() - INTERVAL '1 day'
PruneOddsMutNone(tbl, at) == tbl

PruneOdds(tbl, at) == {r \in tbl : ~(r.fetched_at < at - TicksPerDay)}

OddRow(o) ==
    [game_id |-> o.GameID, sport |-> o.Sport, bookmaker |-> o.Bookmaker,
     market_id |-> o.MarketID, market_name |-> o.MarketName,
     selection_id |-> o.SelectionID, selection_name |-> o.SelectionName,
     line |-> o.Line, price_dec |-> o.PriceDec, price_frac |-> o.PriceFrac,
     fetched_at |-> o.FetchedAt, raw |-> o.Raw]

SameTriple(r, o) ==
    r.game_id = o.GameID /\ r.market_id = o.MarketID /\ r.selection_id = o.SelectionID

\* INSERT INTO liveodds ... ON CONFLICT (game_id, market_id, selection_id) DO UPDATE SET ...
UpsertOddMutInsert(tbl, o) == tbl \cup {OddRow(o)}

UpsertOdd(tbl, o) == {r \in tbl : ~SameTriple(r, o)} \cup {OddRow(o)}

RECURSIVE UpsertOddBatch(_, _)
UpsertOddBatch(tbl, os) ==
    IF os = <<>> THEN tbl ELSE UpsertOddBatch(UpsertOdd(tbl, Head(os)), Tail(os))

\* insertLiveOdds(pool, os): the table afterwards, whether an error is returned, whether
\* the prune ran, the number of rows it deleted and the number of rows the batch found
\* under its own triples
InsertLiveOddsAfterPrune(tbl, os, at, fault) ==
    LET kept == PruneOdds(tbl, at)
        gone == Cardinality(tbl \ kept)
        hit == Cardinality({r \in kept : \E k \in 1..Len(os) : SameTriple(r, os[k])})
    IN  IF fault.kind = "row"
        THEN [tbl |-> IF fault.atomic THEN kept
                      ELSE UpsertOddBatch(kept, SubSeq(os, 1, fault.at - 1)),
              err |-> TRUE, pruned |-> TRUE, deleted |-> gone, replaced |-> hit]
        ELSE [tbl |-> UpsertOddBatch(kept, os), err |-> FALSE, pruned |-> TRUE,
              deleted |-> gone, replaced |-> hit]

insertLiveOddsMutPruneAlways(tbl, os, at, fault) ==
    IF fault.kind = "prune"
    THEN [tbl |-> tbl, err |-> TRUE, pruned |-> FALSE, deleted |-> 0, replaced |-> 0]
    ELSE InsertLiveOddsAfterPrune(tbl, os, at, fault)

insertLiveOdds(tbl, os, at, fault) ==
    IF Len(os) = 0
    THEN [tbl |-> tbl, err |-> FALSE, pruned |-> FALSE, deleted |-> 0, replaced |-> 0]
    ELSE IF fault.kind = "prune"
    THEN [tbl |-> tbl, err |-> TRUE, pruned |-> FALSE, deleted |-> 0, replaced |-> 0]
    ELSE InsertLiveOddsAfterPrune(tbl, os, at, fault)

\* /update-liveodds: inserted after an iteration whose insertLiveOdds returned err
InsertedMutAlways(inserted, batch, err) == inserted + Len(batch)

Inserted(inserted, batch, err) == IF err THEN inserted ELSE inserted + Len(batch)

\* SELECT game_id FROM games WHERE source='live' AND time_status='1': the ids selected
LiveGameIDs(tbl) == {r.game_id : r \in {x \in tbl : x.source = "live" /\ x.time_status = "1"}}

\* the lists fetchLiveGameIDs can return: the query names no order
fetchLiveGameIDs(tbl) ==
    LET ids == LiveGameIDs(tbl)
        n == Cardinality(ids)
    IN  {q \in [1..n -> ids] : \A i \in 1..n : \A j \in 1..n : q[i] = q[j] => i = j}

\* sport, _ := getGameSport(db, id): the empty string when the query fails or finds no row
getGameSport(tbl, id, failed) ==
    IF failed \/ ~\E r \in tbl : r.game_id = id THEN ""
    ELSE (CHOOSE r \in tbl : r.game_id = id).sport

(***************************************************************************)
(* Upstream liveodds responses the model draws from                        *)
(***************************************************************************)
Chars52 == <<"5", "/", "2">>

Chars13 == <<"1", "/", "3">>

Chars10 == <<"1", "/", "0">>

MG(id, name) == [type |-> JStr("MG"), ID |-> JStr(id), NA |-> JStr(name)]

OddsValue(k) == IF k = "OD" THEN Chars52 ELSE IF k = "ODD" THEN Chars13 ELSE Chars10

\* a PA record with selection id sid that carries the odds keys ks
PA(sid, ks) ==
    [k \in {"type", "ID", "NA", "HA"} \cup ks |->
        IF k = "type" THEN JStr("PA")
        ELSE IF k = "ID" THEN JStr(sid)
        ELSE IF k = "NA" THEN JStr("Home")
        ELSE IF k = "HA" THEN JStr("+1.5")
        ELSE JStr(OddsValue(k))]

EV == [type |-> JStr("EV"), ID |-> JStr("E1"), NA |-> JStr("Match")]

\* a record without the type key
NoType == [ID |-> JStr("M9"), NA |-> JStr("N9")]

\* a PA record whose OD value is v
PAOdds(sid, v) == [PA(sid, {}) EXCEPT !["HA"] = JStr("0")] @@ ("OD" :> v)

\* OD values that do not convert: null, which prints as the one part <nil>, and a padded
\* text with a zero denominator
BadOdds == {JNull, JStr(<<" ", "1", "/", "0">>)}

\* the records a response is made of: the two market groups, a record of another type, a
\* record of no type, PA records with none, one or two of the odds keys, and PA records
\* whose odds do not convert
ItemSet ==
    {MG("M1", "N1"), MG("M2", "N2"), EV, NoType}
        \cup {PA("S1", ks) : ks \in {{}, {"OD"}, {"ODDS"}, {"OD", "ODDS"}, {"ODD", "ODDS"}}}
        \cup {PAOdds("S2", v) : v \in BadOdds}

ExampleStream ==
    << <<MG("M1", "N1"), PA("S1", {"OD"}), PA("S2", {"OD"})>>,
       <<MG("M2", "N2"), PA("S3", {"OD"})>> >>

FlatStreams(n) == UNION {[1..m -> ItemSet] : m \in 0..n}

\* the responses of at most n records, cut into two groups, and the example of C1
Streams(n) ==
    UNION {{<<SubSeq(f, 1, k), SubSeq(f, k + 1, Len(f))>> : k \in 0..Len(f)} : f \in FlatStreams(n)}
        \cup {ExampleStream}

RECURSIVE Flatten(_)
Flatten(groups) == IF groups = <<>> THEN <<>> ELSE Head(groups) \o Flatten(Tail(groups))

(***************************************************************************)
(* Specification SpecOdds: one iteration of the /update-liveodds loop, for  *)
(* game g1 on an empty liveodds table: fetchLiveOdds, then insertLiveOdds  *)
(***************************************************************************)
NoResp == [code |-> 0, n |-> 0]

\* the operation, the length of its list, whether it returned an error, the store fault
\* it met and the number of rows its prune deleted
NoCall == [op |-> "", n |-> 0, err |-> FALSE, fault |-> NoFault, deleted |-> 0]

NoLast ==
    [id |-> "", fetched |-> FALSE, batch |-> <<>>, fault |-> NoFault, ok |-> FALSE,
     replaced |-> 0]

\* the locals of /update-liveodds (ids, i, inserted) and what the run did so far: the last
\* iteration, the outcome of each iteration, the tick of the last prune that ran (-1 when
\* none did) and the number of rows the prunes deleted
NoRun ==
    [ids |-> <<>>, i |-> 0, inserted |-> 0, last |-> NoLast, log |-> <<>>,
     prunedAt |-> 0 - 1, deleted |-> 0]

NoConv == [dec |-> <<>>, frac |-> <<>>, ok |-> FALSE]

\* rows: the number of rows the table held when upsertGames was called
NoDb ==
    [fault |-> NoFault, today |-> 0, err |-> FALSE, deleted |-> 0, again |-> FALSE, rows |-> 0]

InitOdds ==
    /\ games = {}
    /\ liveodds = {}
    /\ now = 0
    /\ resp = NoResp
    /\ feeds = <<>>
    /\ all = <<>>
    /\ dbres = NoDb
    /\ run = NoRun
    /\ stream \in Streams(MaxStreamLen)
    /\ odds = <<>>
    /\ phase = "input"
    /\ call = NoCall
    /\ text = <<>>
    /\ conv = NoConv
    /\ procs = <<>>
    /\ api = <<>>

\* odds, err := fetchLiveOdds(id, sport)
FetchLiveOdds ==
    /\ phase = "input"
    /\ \E r \in {FetchFailed, Fetched(stream)} :
        LET f == FetchLiveOddsResult("g1", "soccer", r, now)
        IN  /\ odds' = f.out
            /\ call' = [NoCall EXCEPT !.op = "fetchLiveOdds", !.n = Len(f.out), !.err = f.err]
            /\ phase' = IF f.err THEN "failed" ELSE "decoded"
    /\ UNCHANGED <<games, liveodds, now, resp, feeds, all, dbres, run, stream, text, conv, procs,
                   api>>

\* insertLiveOdds(db, odds)
InsertLiveOdds ==
    /\ phase = "decoded"
    /\ \E fault \in Faults(Len(odds)) \cap {NoFault, PruneFault} :
        LET u == insertLiveOdds(liveodds, odds, now, fault)
        IN  /\ liveodds' = u.tbl
            /\ call' = [NoCall EXCEPT !.op = "insertLiveOdds", !.n = Len(odds), !.err = u.err,
                                      !.fault = fault]
    /\ phase' = "stored"
    /\ UNCHANGED <<games, now, resp, feeds, all, dbres, run, stream, odds, text, conv, procs, api>>

NextOdds == FetchLiveOdds \/ InsertLiveOdds

SpecOdds == InitOdds /\ [][NextOdds]_vars

(***************************************************************************)
(* Upstream game feeds the model draws from: game g1 is a soccer game and  *)
(* g2 a tennis game; a feed lists at most one game                         *)
(***************************************************************************)
PreItem(id, t) ==
    [game_id |-> id, time |-> t, time_status |-> "0", league |-> "L1", home |-> "H",
     away |-> "A", scores |-> ""]

LiveItem(id, t) ==
    JMap([game_id |-> JStr(id), time |-> JStr(t), time_status |-> JStr("1"),
          league |-> JStr("L1"), home |-> JStr("H"), away |-> JStr("A"),
          scores |-> JStr("1-0")])

\* a live game without the time key
LiveItemNoTime(id) ==
    JMap([game_id |-> JStr(id), time_status |-> JStr("1"), league |-> JStr("L1"),
          home |-> JStr("H"), away |-> JStr("A"), scores |-> JStr("1-0")])

\* task=pre, sport=soccer: g1 starts at tick 1
PreSoccer == {FetchFailed, Fetched(<<>>), Fetched(<<PreItem("g1", <<"1">>)>>)}

\* task=pre, sport=tennis: g2 starts at tick 9
PreTennis == {FetchFailed, Fetched(<<PreItem("g2", <<" ", "9">>)>>)}

\* task=live, sport=soccer: no games key, or g1 with its start moved to tick 9
LiveSoccer ==
    {FetchFailed, Fetched([error |-> JStr("no games")]),
     Fetched([games |-> JArr(<<LiveItem("g1", <<"9">>)>>)])}

\* task=live, sport=tennis: an entry that is no object, then g2 without a start
LiveTennis == {FetchFailed, Fetched([games |-> JArr(<<JNull, LiveItemNoTime("g2")>>)])}

(***************************************************************************)
(* Specification SpecGames: /sync-games runs, one at a time, and the clock *)
(***************************************************************************)
InitGames ==
    /\ games = {}
    /\ liveodds = {}
    /\ now = 0
    /\ resp = NoResp
    /\ feeds = <<>>
    /\ all = <<>>
    /\ dbres = NoDb
    /\ run = NoRun
    /\ stream = <<>>
    /\ odds = <<>>
    /\ phase = "idle"
    /\ call = NoCall
    /\ text = <<>>
    /\ conv = NoConv
    /\ procs = <<>>
    /\ api = <<>>

\* GET /sync-games, first half: all, err := fetchAllGames() (err is always nil)
FetchAllGames ==
    /\ phase = "idle"
    /\ \E f1 \in PreSoccer, f2 \in PreTennis, f3 \in LiveSoccer, f4 \in LiveTennis :
        LET fs == <<f1, f2, f3, f4>>
            a == fetchAllGames(fs)
        IN  /\ feeds' = fs
            /\ all' = a
            /\ dbres' = [dbres EXCEPT !.fault = NoFault, !.deleted = 0,
                                      !.again = feeds # <<>> /\ ~dbres.err /\ all = a]
    /\ resp' = NoResp
    /\ phase' = "fetched"
    /\ UNCHANGED <<games, liveodds, now, run, stream, odds, call, text, conv, procs, api>>

\* GET /sync-games, second half: upsertGames(db, all) and the response
UpsertGames ==
    /\ phase = "fetched"
    /\ \E fault \in Faults(Len(all)) :
        LET u == upsertGames(games, all, now, fault)
        IN  /\ games' = u.tbl
            /\ resp' = SyncGamesResponse(all, u)
            /\ dbres' = [fault |-> fault, today |-> CurrentDate(now), err |-> u.err,
                         deleted |-> u.deleted,
                         again |-> dbres.again /\ ~u.err /\ dbres.today = CurrentDate(now),
                         rows |-> Cardinality(games)]
    /\ phase' = "idle"
    /\ UNCHANGED <<liveodds, now, feeds, all, run, stream, odds, call, text, conv, procs, api>>

Tick ==
    /\ now < MaxNow
    /\ now' = now + 1
    /\ UNCHANGED <<games, liveodds, resp, feeds, all, dbres, run, stream, odds, phase, call,
                   text, conv, procs, api>>

NextGames == FetchAllGames \/ UpsertGames \/ Tick

SpecGames == InitGames /\ [][NextGames]_vars

(***************************************************************************)
(* Upstream liveodds responses per game, and the stores /update-liveodds   *)
(* starts from: what one /sync-games run at tick 0 leaves                  *)
(***************************************************************************)
StreamA == << <<MG("M1", "N1"), PA("S1", {"OD"})>> >>

\* the price of S1 changed, and a second selection
StreamB == << <<MG("M1", "N1")>>, <<PA("S1", {"ODD"}), PA("S2", {"OD"})>> >>

OddsResponses(id) ==
    IF id = "g1" THEN {FetchFailed, Fetched(<<>>), Fetched(StreamA), Fetched(StreamB)}
    ELSE {FetchFailed, Fetched(StreamA)}

\* the sport lookup of g2 can fail, that of g1 does not
SportLookupFails(id) == IF id = "g2" THEN BOOLEAN ELSE {FALSE}

LiveStartFeeds ==
    {<<f1, FetchFailed, f3, f4>> :
        f1 \in {FetchFailed, Fetched(<<PreItem("g1", <<"1">>)>>)},
        f3 \in {FetchFailed, Fetched([games |-> JArr(<<LiveItem("g1", <<"9">>)>>)])},
        f4 \in LiveTennis}

LiveStartGames == {upsertGames({}, fetchAllGames(fs), 0, NoFault).tbl : fs \in LiveStartFeeds}

(***************************************************************************)
(* Specification SpecLive: /update-liveodds runs, one at a time, and the   *)
(* clock                                                                   *)
(***************************************************************************)
InitLive ==
    /\ games \in LiveStartGames
    /\ liveodds = {}
    /\ now = 0
    /\ resp = NoResp
    /\ feeds = <<>>
    /\ all = <<>>
    /\ dbres = NoDb
    /\ run = NoRun
    /\ stream = <<>>
    /\ odds = <<>>
    /\ phase = "idle"
    /\ call = NoCall
    /\ text = <<>>
    /\ conv = NoConv
    /\ procs = <<>>
    /\ api = <<>>

\* GET /update-liveodds: gameIDs, err := fetchLiveGameIDs(db)
LiveOddsStart ==
    /\ phase = "idle"
    /\ \/ /\ resp' = [code |-> 500, n |-> 0]
          /\ run' = NoRun
          /\ phase' = "idle"
       \/ \E ids \in fetchLiveGameIDs(games) :
            /\ resp' = NoResp
            /\ run' = [NoRun EXCEPT !.ids = ids, !.i = 1]
            /\ phase' = "loop"
    /\ UNCHANGED <<games, liveodds, now, feeds, all, dbres, stream, odds, call, text, conv,
                   procs, api>>

\* one iteration of the loop, for gameIDs[i]
LiveOddsGame ==
    /\ phase = "loop"
    /\ run.i <= Len(run.ids)
    /\ LET id == run.ids[run.i]
       IN  \E sportFailed \in SportLookupFails(id), r \in OddsResponses(id) :
            LET sport == getGameSport(games, id, sportFailed)
                batch == fetchLiveOdds(id, sport, r.body, now)
            IN  IF r.err
                THEN /\ liveodds' = liveodds
                     /\ run' = [run EXCEPT !.i = @ + 1,
                                           !.last = [NoLast EXCEPT !.id = id],
                                           !.log = Append(@, [id |-> id, ok |-> FALSE, n |-> 0])]
                ELSE \E fault \in Faults(Len(batch)) :
                        LET u == insertLiveOdds(liveodds, batch, now, fault)
                        IN  /\ liveodds' = u.tbl
                            /\ run' = [run EXCEPT
                                        !.i = @ + 1,
                                        !.inserted = Inserted(@, batch, u.err),
                                        !.last = [id |-> id, fetched |-> TRUE, batch |-> batch,
                                                  fault |-> fault, ok |-> ~u.err,
                                                  replaced |-> IF u.err THEN 0 ELSE u.replaced],
                                        !.deleted = @ + u.deleted,
                                        !.log = Append(@, [id |-> id, ok |-> ~u.err,
                                                           n |-> Len(batch)]),
                                        !.prunedAt = IF u.pruned THEN now ELSE @]
    /\ UNCHANGED <<games, now, resp, feeds, all, dbres, stream, odds, phase, call, text, conv,
                   procs, api>>

\* the loop is over: c.JSON(200, ...)
LiveOddsDone ==
    /\ phase = "loop"
    /\ run.i > Len(run.ids)
    /\ resp' = [code |-> 200, n |-> run.inserted]
    /\ run' = NoRun
    /\ phase' = "idle"
    /\ UNCHANGED <<games, liveodds, now, feeds, all, dbres, stream, odds, call, text, conv,
                   procs, api>>

NextLive == LiveOddsStart \/ LiveOddsGame \/ LiveOddsDone \/ Tick

SpecLive == InitLive /\ [][NextLive]_vars

(***************************************************************************)
(* Specification SpecStore: upsertGames and insertLiveOdds called directly *)
(***************************************************************************)
GameBatches ==
    {fetchAllGames(<<f1, FetchFailed, FetchFailed, f4>>) : f1 \in PreSoccer, f4 \in LiveTennis}

OddsBatches(at) == {fetchLiveOdds("g1", "soccer", s, at) : s \in {<<>>, StreamA, StreamB}}

InitStore == InitGames

CallUpsertGames ==
    /\ \E gs \in GameBatches :
        \E fault \in Faults(Len(gs)) :
            LET u == upsertGames(games, gs, now, fault)
            IN  /\ games' = u.tbl
                /\ call' = [op |-> "upsertGames", n |-> Len(gs), err |-> u.err, fault |-> fault,
                            deleted |-> u.deleted]
    /\ UNCHANGED <<liveodds, now, resp, feeds, all, dbres, run, stream, odds, phase, text,
                   conv, procs, api>>

CallInsertLiveOdds ==
    /\ \E os \in OddsBatches(now) :
        \E fault \in Faults(Len(os)) :
            LET u == insertLiveOdds(liveodds, os, now, fault)
            IN  /\ liveodds' = u.tbl
                /\ call' = [op |-> "insertLiveOdds", n |-> Len(os), err |-> u.err,
                            fault |-> fault, deleted |-> u.deleted]
    /\ UNCHANGED <<games, now, resp, feeds, all, dbres, run, stream, odds, phase, text, conv,
                   procs, api>>

NextStore == CallUpsertGames \/ CallInsertLiveOdds \/ Tick

SpecStore == InitStore /\ [][NextStore]_vars

(***************************************************************************)
(* Specification SpecConc: two /sync-games handlers running at once on one *)
(* store, each stepping through its fetch, the prune DELETE and the        *)
(* statements of its batch; a store error ends the handler where it stands *)
(***************************************************************************)
ProcIds == {1, 2}

\* the locals of a handler: where it stands, its list, the next statement of the batch and
\* whether it answered 500
NoProc == [pc |-> "start", all |-> <<>>, i |-> 0, err |-> FALSE]

\* what the four fetches of one handler can return
ConcFeeds ==
    {<<f1, FetchFailed, f3, f4>> :
        f1 \in PreSoccer,
        f3 \in {FetchFailed, Fetched([games |-> JArr(<<LiveItem("g1", <<"9">>)>>)])},
        f4 \in LiveTennis}

InitConc ==
    /\ games = {}
    /\ liveodds = {}
    /\ now \in 0..MaxNow
    /\ resp = NoResp
    /\ feeds = <<>>
    /\ all = <<>>
    /\ dbres = NoDb
    /\ run = NoRun
    /\ stream = <<>>
    /\ odds = <<>>
    /\ phase = "idle"
    /\ call = NoCall
    /\ text = <<>>
    /\ conv = NoConv
    /\ procs = [p \in ProcIds |-> NoProc]
    /\ api = <<>>

\* all, err := fetchAllGames()
ConcFetch(p) ==
    /\ procs[p].pc = "start"
    /\ \E fs \in ConcFeeds :
        procs' = [procs EXCEPT ![p] = [@ EXCEPT !.pc = "upsert", !.all = fetchAllGames(fs)]]
    /\ UNCHANGED <<games, liveodds, now, resp, feeds, all, dbres, run, stream, odds, phase, call,
                   text, conv, api>>

\* upsertGames up to the batch: the empty-list return, or the prune DELETE
ConcPrune(p) ==
    /\ procs[p].pc = "upsert"
    /\ IF Len(procs[p].all) = 0
       THEN /\ games' = games
            /\ procs' = [procs EXCEPT ![p] = [@ EXCEPT !.pc = "done"]]
       ELSE \/ /\ games' = games
               /\ procs' = [procs EXCEPT ![p] = [@ EXCEPT !.pc = "done", !.err = TRUE]]
            \/ /\ games' = PruneGames(games, now)
               /\ procs' = [procs EXCEPT ![p] = [@ EXCEPT !.pc = "batch", !.i = 1]]
    /\ UNCHANGED <<liveodds, now, resp, feeds, all, dbres, run, stream, odds, phase, call, text,
                   conv, api>>

\* one statement of the batch: it fails, or it upserts its record
ConcUpsertRow(p) ==
    /\ procs[p].pc = "batch"
    /\ \/ /\ games' = games
          /\ procs' = [procs EXCEPT ![p] = [@ EXCEPT !.pc = "done", !.err = TRUE]]
       \/ /\ games' = UpsertGame(games, procs[p].all[procs[p].i], now)
          /\ procs' = [procs EXCEPT ![p] =
                        [@ EXCEPT !.pc = IF procs[p].i = Len(procs[p].all) THEN "done" ELSE "batch",
                                  !.i = @ + 1]]
    /\ UNCHANGED <<liveodds, now, resp, feeds, all, dbres, run, stream, odds, phase, call, text,
                   conv, api>>

NextConc == \E p \in ProcIds : ConcFetch(p) \/ ConcPrune(p) \/ ConcUpsertRow(p)

SpecConc == InitConc /\ [][NextConc]_vars

(***************************************************************************)
(* Specification SpecFrac: fracToDecimal applied to one text               *)
(***************************************************************************)
TextChars == {"0", "1", "2", "3", "5", "/", ".", "-", " ", "x"}

Texts(n) == UNION {[1..m -> TextChars] : m \in 0..n}

InitFrac ==
    /\ games = {}
    /\ liveodds = {}
    /\ now = 0
    /\ resp = NoResp
    /\ feeds = <<>>
    /\ all = <<>>
    /\ dbres = NoDb
    /\ run = NoRun
    /\ stream = <<>>
    /\ odds = <<>>
    /\ phase = "input"
    /\ call = NoCall
    /\ text \in Texts(MaxTextLen)
    /\ conv = NoConv
    /\ procs = <<>>
    /\ api = <<>>

FracToDecimal ==
    /\ phase = "input"
    /\ conv' = fracToDecimal(text)
    /\ phase' = "converted"
    /\ UNCHANGED <<games, liveodds, now, resp, feeds, all, dbres, run, stream, odds, call, text,
                   procs, api>>

NextFrac == FracToDecimal

SpecFrac == InitFrac /\ [][NextFrac]_vars

(***************************************************************************)
(* GET /api/games, and specification SpecApi: /update-liveodds runs and    *)
(* /api/games reads, one at a time                                         *)
(***************************************************************************)
ApiLimit == 100

\* WHERE time_status IN ('0','1')
ApiGameRows(tbl) == {r \in tbl : r.time_status \in {"0", "1"}}

\* ORDER BY starts_at NULLS LAST: r1 must come before r2
StartsBefore(r1, r2) ==
    ~r1.starts_at.null /\ (r2.starts_at.null \/ r1.starts_at.t < r2.starts_at.t)

\* the row lists the games query can return: rows with equal starts_at come in any order
ApiGameLists(tbl) ==
    LET rows == ApiGameRows(tbl)
        n == Cardinality(rows)
        m == IF n < ApiLimit THEN n ELSE ApiLimit
        sorted == {q \in [1..n -> rows] :
                    /\ \A i \in 1..n : \A j \in 1..n : q[i] = q[j] => i = j
                    /\ \A i \in 1..n : \A j \in (i + 1)..n : ~StartsBefore(q[j], q[i])}
    IN  {SubSeq(q, 1, m) : q \in sorted}

\* the relation "odds" that the odds query names: no statement of the program creates it
\* or writes to it, so either it does not exist or it holds no row
OddsRelation == {[exists |-> FALSE, rows |-> {}], [exists |-> TRUE, rows |-> {}]}

\* SELECT selection_name, price_dec FROM odds WHERE game_id = $1, and what the handler
\* makes of it: the empty list when the query fails, the appended rows (a nil slice when
\* there are none) otherwise
ApiOdds(rel, gameID) ==
    IF ~rel.exists THEN {[null |-> FALSE, list |-> <<>>]}
    ELSE LET rows == {r \in rel.rows : r.game_id = gameID}
             n == Cardinality(rows)
             lists == {q \in [1..n -> rows] : \A i \in 1..n : \A j \in 1..n : q[i] = q[j] => i = j}
         IN  {[null |-> n = 0,
               list |-> [k \in 1..n |-> [selection_name |-> q[k].selection_name,
                                          price_dec |-> q[k].price_dec]]] : q \in lists}

\* the element of "games" in the answer for row r
ApiG(r, o) ==
    [game_id |-> r.game_id, league |-> r.league, home_team |-> r.home_team,
     away_team |-> r.away_team, time_status |-> r.time_status, starts_at |-> r.starts_at,
     odds |-> o]

\* the lists the handler can answer with when the games query succeeds
ApiAnswers(tbl, rel) ==
    UNION {{out \in [1..Len(q) -> {ApiG(r, o) : r \in tbl, o \in UNION {ApiOdds(rel, x.game_id) : x \in tbl}}] :
                \A i \in 1..Len(q) : \E o \in ApiOdds(rel, q[i].game_id) : out[i] = ApiG(q[i], o)} :
           q \in ApiGameLists(tbl)}

ApiGames ==
    /\ phase = "idle"
    /\ \/ /\ resp' = [code |-> 500, n |-> 0]
          /\ api' = <<>>
       \/ \E rel \in OddsRelation :
            \E out \in ApiAnswers(games, rel) :
                /\ resp' = [code |-> 200, n |-> Len(out)]
                /\ api' = out
    /\ UNCHANGED <<games, liveodds, now, feeds, all, dbres, run, stream, odds, phase, call, text,
                   conv, procs>>

NextApi == LiveOddsStart \/ LiveOddsGame \/ LiveOddsDone \/ ApiGames

SpecApi == InitLive /\ [][NextApi]_vars

(***************************************************************************)
(* Claims about fetchLiveOdds                                              *)
(***************************************************************************)
TypeOf(item) == IF "type" \in DOMAIN item /\ item["type"].t = "str" THEN item["type"].v ELSE "<nil>"

\* the positions of the flattened stream whose record is emitted
Emitting(flat) ==
    {i \in 1..Len(flat) : TypeOf(flat[i]) = "PA" /\ DOMAIN flat[i] \cap {"OD", "ODD", "ODDS"} # {}}

\* the position of the k-th emitted record
EmitPos(flat, k) ==
    CHOOSE p \in Emitting(flat) : Cardinality({q \in Emitting(flat) : q < p}) = k - 1

\* the position of the last MG record before p, 0 when there is none
MarketPos(flat, p) ==
    LET ms == {m \in 1..(p - 1) : TypeOf(flat[m]) = "MG"}
    IN  IF ms = {} THEN 0 ELSE CHOOSE m \in ms : \A x \in ms : x <= m

\* C1: every emitted LiveOdd carries the id and name of the last MG record before its PA
\* record in stream order, LiveOdds come in the order of their PA records, and the stream
\* [MG M1/N1, PA S1, PA S2, MG M2/N2, PA S3] gives exactly three LiveOdds tagged M1/N1,
\* M1/N1, M2/N2.
C1_MarketContext ==
    phase = "decoded" =>
        LET flat == Flatten(stream)
        IN  /\ Len(odds) = Cardinality(Emitting(flat))
            /\ \A k \in 1..Len(odds) :
                 LET p == EmitPos(flat, k)
                     m == MarketPos(flat, p)
                 IN  /\ odds[k].Raw = JsonMarshal(flat[p])
                     /\ odds[k].SelectionID = flat[p]["ID"].v
                     /\ m # 0 => /\ odds[k].MarketID = flat[m]["ID"].v
                                 /\ odds[k].MarketName = flat[m]["NA"].v
                     /\ m = 0 => odds[k].MarketID = "" /\ odds[k].MarketName = ""
            /\ stream = ExampleStream =>
                 /\ Len(odds) = 3
                 /\ <<odds[1].SelectionID, odds[1].MarketID, odds[1].MarketName>> = <<"S1", "M1", "N1">>
                 /\ <<odds[2].SelectionID, odds[2].MarketID, odds[2].MarketName>> = <<"S2", "M1", "N1">>
                 /\ <<odds[3].SelectionID, odds[3].MarketID, odds[3].MarketName>> = <<"S3", "M2", "N2">>

C1_Witness ==
    /\ phase = "decoded"
    /\ stream = ExampleStream
    /\ Len(odds) = 3
    /\ odds[3].MarketID = "M2"

\* the text of an odds value: null prints as <nil>
TextOf(v) == IF v.t = "null" THEN <<"<", "n", "i", "l", ">">> ELSE v.v

\* the odds text the claim expects for a PA record
PriorityText(item) ==
    IF "OD" \in DOMAIN item THEN TextOf(item["OD"])
    ELSE IF "ODD" \in DOMAIN item THEN TextOf(item["ODD"])
    ELSE TextOf(item["ODDS"])

\* C8: the odds text used for an emitted LiveOdd is the value under OD if OD is present,
\* else the value under ODD if present, else the value under ODDS: the prices of the
\* LiveOdd are the conversion of that text.
C8_OddsPriority ==
    phase = "decoded" =>
        LET flat == Flatten(stream)
        IN  \A k \in 1..Len(odds) :
                LET item == flat[EmitPos(flat, k)]
                IN  /\ odds[k].PriceFrac = fracToDecimal(PriorityText(item)).frac
                    /\ odds[k].PriceDec = fracToDecimal(PriorityText(item)).dec

C8_Witness ==
    /\ phase = "decoded"
    /\ stream = << <<PA("S1", {"OD", "ODDS"})>>, <<>> >>
    /\ Len(odds) = 1
    /\ odds[1].PriceFrac = Chars52
    /\ odds[1].PriceDec = <<"3", ".", "5">>

(***************************************************************************)
(* Claims about the Game Synchronizer                                      *)
(***************************************************************************)
\* the step in which /sync-games calls upsertGames and answers
UpsertStep == phase = "fetched" /\ phase' = "idle"

StaleGame(r, at) == ~r.starts_at.null /\ r.starts_at.t < CurrentDate(at)

\* the non-key attributes of a games row
GameAttrs(r) ==
    <<r.sport, r.bookmaker, r.source, r.league, r.home_team, r.away_team, r.scores,
      r.time_status, r.starts_at>>

\* the non-key attributes a Game record asks for
WantedAttrs(g) ==
    <<g.Sport, g.Bookmaker, g.Source, g.League, g.Home, g.Away, g.Scores, g.TimeStatus,
      g.StartsAt>>

\* the last record of batch b with the game id of b[i]
LastOf(b, i) ==
    b[CHOOSE j \in 1..Len(b) :
        /\ b[j].GameID = b[i].GameID
        /\ \A k \in (j + 1)..Len(b) : b[k].GameID # b[i].GameID]

\* the table without the write timestamps
WithoutUpdatedAt(tbl) == {<<r.game_id, GameAttrs(r)>> : r \in tbl}

\* C2 as stated: after a /sync-games run no row with starts_at before the current date is
\* in the store, whatever the feeds returned.
C2_NoStaleAfterRun ==
    [][UpsertStep => \A r \in games' : ~StaleGame(r, now)]_vars

\* C2 amended: after a run whose aggregate list is not empty and whose prune DELETE did
\* not fail, every row with starts_at before the current date is a row this run's own
\* batch wrote.
C2_StaleOnlyFromBatch ==
    [][(UpsertStep /\ all # <<>> /\ dbres'.fault.kind # "prune") =>
        \A r \in games' : StaleGame(r, now) => \E i \in 1..Len(all) : r = GameRow(all[i], now)]_vars

C2_Witness ==
    /\ phase = "idle"
    /\ resp.code = 200
    /\ all # <<>>
    /\ dbres.deleted > 0
    /\ \A r \in games : ~StaleGame(r, now)

\* C5: a second successful application of the same batch on the same date leaves the
\* store as the first left it, write timestamps aside, with exactly one row per game id
\* of the batch carrying the attributes of the batch's last record for that id.
C5_Idempotent ==
    [][(UpsertStep /\ dbres'.again) =>
        /\ WithoutUpdatedAt(games') = WithoutUpdatedAt(games)
        /\ \A i \in 1..Len(all) :
            /\ Cardinality({r \in games' : r.game_id = all[i].GameID}) = 1
            /\ \A r \in games' :
                r.game_id = all[i].GameID =>
                    GameAttrs(r) = WantedAttrs(LastOf(all, i)) /\ r.updated_at = now]_vars

C5_Witness ==
    /\ phase = "idle"
    /\ dbres.again
    /\ Len(all) >= 2
    /\ \E r \in games : r.updated_at = now /\ now > 0

\* C6: at most one row per game_id in every reachable state, and after a successful
\* upsertGames of batch B every game_id of B has a row with the attributes of the last
\* record of B with that id.
C6_UniqueLastWriterWins ==
    /\ \A r1 \in games : \A r2 \in games : r1.game_id = r2.game_id => r1 = r2
    /\ (phase = "idle" /\ feeds # <<>> /\ ~dbres.err) =>
        \A i \in 1..Len(all) :
            \E r \in games : r.game_id = all[i].GameID /\ GameAttrs(r) = WantedAttrs(LastOf(all, i))

C6_Witness ==
    /\ phase = "idle"
    /\ feeds # <<>>
    /\ ~dbres.err
    /\ \E i \in 1..Len(all) : \E j \in 1..Len(all) :
        i < j /\ all[i].GameID = all[j].GameID /\ all[i].Source # all[j].Source
    /\ \E r \in games : r.game_id = "g1" /\ r.source = "live"

\* what the i-th fetch of a run returned
FetchResult(fs, i) ==
    IF i = 1 THEN fetchPreGames("soccer", fs[1])
    ELSE IF i = 2 THEN fetchPreGames("tennis", fs[2])
    ELSE IF i = 3 THEN fetchLiveGames("soccer", fs[3])
    ELSE fetchLiveGames("tennis", fs[4])

RECURSIVE ConcatOk(_, _)
ConcatOk(fs, i) ==
    IF i > 4 THEN <<>>
    ELSE (IF fs[i].err THEN <<>> ELSE FetchResult(fs, i).out) \o ConcatOk(fs, i + 1)

\* C10: the list handed to upsertGames is the concatenation, in fetch order, of the
\* results of exactly the fetches that succeeded; the run reports an error exactly when
\* the persistence step fails, and otherwise the length of that list.
C10_BestEffort ==
    /\ feeds # <<>> => all = ConcatOk(feeds, 1)
    /\ (phase = "idle" /\ feeds # <<>>) =>
        /\ resp.code \in {200, 500}
        /\ resp.code = 500 <=> dbres.fault.kind # "none"
        /\ resp.code = 200 => resp.n = Len(all)

C10_Witness ==
    /\ phase = "idle"
    /\ resp.code = 200
    /\ feeds[1].err /\ ~feeds[2].err /\ feeds[3].err /\ ~feeds[4].err
    /\ resp.n = 2

(***************************************************************************)
(* Claims about the store operations and the Live-Odds Synchronizer        *)
(***************************************************************************)
StaleOdd(r, at) == r.fetched_at < at - TicksPerDay

\* C4: upsertGames or insertLiveOdds called with an empty list leaves both tables as they
\* were, stale rows included, and returns no error.
C4_EmptyBatchNoOp ==
    [][(now' = now /\ call'.n = 0) =>
        games' = games /\ liveodds' = liveodds /\ ~call'.err]_vars

C4_Witness ==
    /\ call.op = "upsertGames"
    /\ call.n = 0
    /\ ~call.err
    /\ \E r \in games : StaleGame(r, now)
    /\ \E r \in liveodds : StaleOdd(r, now)

\* the steps of /update-liveodds
LiveGameStep == phase = "loop" /\ run'.i = run.i + 1

LiveDoneStep == phase = "loop" /\ phase' = "idle"

\* C3 as stated: after an /update-liveodds run no row with fetched_at more than 24 hours
\* old is in the store, whatever the live games and the fetch results.
C3_NoStaleAfterRun ==
    [][LiveDoneStep => \A r \in liveodds' : ~StaleOdd(r, now)]_vars

\* C3 amended: after a run in which a prune DELETE ran (some game's fetch returned at
\* least one odd and the DELETE did not fail), no row is left that was more than 24 hours
\* old when the last such prune ran.
C3_NoStaleAfterPrune ==
    [][(LiveDoneStep /\ run.prunedAt >= 0) =>
        \A r \in liveodds' : ~StaleOdd(r, run.prunedAt)]_vars

C3_Witness ==
    /\ phase = "loop"
    /\ run.i > Len(run.ids)
    /\ run.prunedAt = now
    /\ run.deleted > 0
    /\ liveodds # {}
    /\ \A r \in liveodds : ~StaleOdd(r, now)

\* the last record of batch b with the triple of b[k]
LastOddOf(b, k) ==
    b[CHOOSE j \in 1..Len(b) :
        /\ SameTriple(OddRow(b[k]), b[j])
        /\ \A m \in (j + 1)..Len(b) : ~SameTriple(OddRow(b[k]), b[m])]

UniqueOdds(tbl) ==
    \A r1 \in tbl : \A r2 \in tbl :
        (r1.game_id = r2.game_id /\ r1.market_id = r2.market_id
            /\ r1.selection_id = r2.selection_id) => r1 = r2

\* C7: at most one liveodds row per (game_id, market_id, selection_id) in every reachable
\* state; a successful insertLiveOdds leaves, for every incoming record, exactly the row
\* with the record's fields under its triple, adds no row for a triple that was there, and
\* leaves the rows of other triples that are at most 24 hours old as they were.
C7_UniqueOverwrite ==
    /\ []UniqueOdds(liveodds)
    /\ [][(LiveGameStep /\ run'.last.ok) =>
            LET b == run'.last.batch
                kept == {r \in liveodds : ~StaleOdd(r, now)}
                other == {r \in kept : \A k \in 1..Len(b) : ~SameTriple(r, b[k])}
                Triples(t) == {<<r.game_id, r.market_id, r.selection_id>> : r \in t}
            IN  /\ \A k \in 1..Len(b) :
                    {r \in liveodds' : SameTriple(r, b[k])} = {OddRow(LastOddOf(b, k))}
                /\ {r \in liveodds' : \A k \in 1..Len(b) : ~SameTriple(r, b[k])} =
                        IF b = <<>> THEN liveodds ELSE other
                /\ b # <<>> =>
                    Triples(liveodds') = Triples(kept) \cup Triples({OddRow(b[k]) : k \in 1..Len(b)})]_vars

C7_Witness ==
    /\ phase = "loop"
    /\ run.last.ok
    /\ run.last.replaced > 0
    /\ Len(run.last.batch) = 2
    /\ \E r \in liveodds : r.game_id = "g1" /\ r.selection_id = "S1" /\ r.price_frac = Chars13
    /\ \E r \in liveodds : r.game_id = "g2" /\ r.fetched_at < now

RECURSIVE SumOk(_)
SumOk(log) == IF log = <<>> THEN 0 ELSE (IF Head(log).ok THEN Head(log).n ELSE 0) + SumOk(Tail(log))

\* C9: the games are taken one at a time in list order; a game whose fetch and insert
\* succeed has its batch in the store when its iteration ends, whatever happened to the
\* games before it; an iteration removes rows of other games only when they are more than
\* 24 hours old; once the id list is read the run answers 200 with the sum of the batch
\* sizes of exactly the games whose fetch and insert succeeded.
C9_PerGameIsolation ==
    /\ [][LiveGameStep =>
            LET id == run.ids[run.i]
                last == run'.last
            IN  /\ last.id = id
                /\ Len(run'.log) = run.i
                /\ run'.log[run.i] = [id |-> id, ok |-> last.ok, n |-> Len(last.batch)]
                /\ last.ok <=> (last.fetched /\ last.fault.kind = "none")
                /\ last.ok => \A k \in 1..Len(last.batch) :
                                OddRow(LastOddOf(last.batch, k)) \in liveodds'
                /\ \A r \in liveodds : (r.game_id # id /\ ~StaleOdd(r, now)) => r \in liveodds']_vars
    /\ [][LiveDoneStep =>
            /\ Len(run.log) = Len(run.ids)
            /\ \A j \in 1..Len(run.ids) : run.log[j].id = run.ids[j]
            /\ resp'.code = 200
            /\ resp'.n = SumOk(run.log)]_vars

C9_Witness ==
    /\ phase = "loop"
    /\ run.i > Len(run.ids)
    /\ Len(run.log) = 2
    /\ ~run.log[1].ok
    /\ run.log[2].ok /\ run.log[2].n = 2
    /\ run.inserted = 2
    /\ Cardinality({r \in liveodds : r.game_id = "g1" /\ r.fetched_at = now}) = 2

(***************************************************************************)
(* End to end: one /sync-games run on an empty store                       *)
(***************************************************************************)
\* the game objects of a task=live response
LiveEntries(r) ==
    IF r.err \/ Lookup(r.body, "games").t # "arr" THEN <<>>
    ELSE LET isGame(x) == x.t = "map" IN SelectSeq(r.body["games"].v, isGame)

\* the pre-match games of a task=pre response
PreEntries(r) == IF r.err THEN <<>> ELSE r.body

\* upstream returns one pre-match soccer game, one live tennis game with another id, and
\* nothing else
OnePreSoccerOneLiveTennis(fs) ==
    /\ Len(PreEntries(fs[1])) = 1
    /\ Len(PreEntries(fs[2])) = 0
    /\ Len(LiveEntries(fs[3])) = 0
    /\ Len(LiveEntries(fs[4])) = 1
    /\ JStr(PreEntries(fs[1])[1].game_id) # LiveEntries(fs[4])[1].v["game_id"]

\* C11: a /sync-games run on an empty store, with upstream returning one pre-match soccer
\* game and one live tennis game with another id and nothing else, leaves exactly two rows:
\* the first game's with sport soccer and source pre, the second's with sport tennis and
\* source live; the run answers 200 with count 2.
C11_EndToEnd ==
    [][(UpsertStep /\ games = {} /\ dbres'.fault.kind = "none"
            /\ OnePreSoccerOneLiveTennis(feeds)) =>
        LET id1 == PreEntries(feeds[1])[1].game_id
            id2 == LiveEntries(feeds[4])[1].v["game_id"].v
        IN  /\ Len(all) = 2
            /\ <<all[1].GameID, all[1].Sport, all[1].Source>> = <<id1, "soccer", "pre">>
            /\ <<all[2].GameID, all[2].Sport, all[2].Source>> = <<id2, "tennis", "live">>
            /\ Cardinality(games') = 2
            /\ \E r \in games' : r.game_id = id1 /\ r.sport = "soccer" /\ r.source = "pre"
            /\ \E r \in games' : r.game_id = id2 /\ r.sport = "tennis" /\ r.source = "live"
            /\ resp' = [code |-> 200, n |-> 2]]_vars

C11_Witness ==
    /\ phase = "idle"
    /\ feeds # <<>>
    /\ OnePreSoccerOneLiveTennis(feeds)
    /\ dbres.rows = 0
    /\ dbres.fault.kind = "none"
    /\ resp = [code |-> 200, n |-> 2]
    /\ Cardinality(games) = 2
    /\ \E r \in games : r.game_id = "g1" /\ r.sport = "soccer" /\ r.source = "pre"
    /\ \E r \in games : r.game_id = "g2" /\ r.sport = "tennis" /\ r.source = "live"

(***************************************************************************)
(* The read projection                                                     *)
(***************************************************************************)
\* the step in which /api/games answers 200
ApiStep == phase = "idle" /\ phase' = "idle" /\ resp'.code = 200

\* C12: the odds list /api/games attaches to a returned game G holds a (selection_name,
\* price_dec) pair for every liveodds row stored for G.
C12_OddsAnnotated ==
    [][ApiStep =>
        \A i \in 1..Len(api') :
            \A r \in liveodds :
                r.game_id = api'[i].game_id =>
                    \E k \in 1..Len(api'[i].odds.list) :
                        api'[i].odds.list[k] =
                            [selection_name |-> r.selection_name, price_dec |-> r.price_dec]]_vars

(***************************************************************************)
(* Claims about fracToDecimal                                              *)
(***************************************************************************)
AllDigits(s) == s # <<>> /\ \A i \in 1..Len(s) : IsDigit(s[i])

\* a part is numeric: an optional sign, then digits with at most one decimal point
IsNumeric(s) ==
    LET body == IF s # <<>> /\ s[1] \in {"+", "-"} THEN SubSeq(s, 2, Len(s)) ELSE s
    IN  /\ \E i \in 1..Len(body) : IsDigit(body[i])
        /\ \A i \in 1..Len(body) : IsDigit(body[i]) \/ body[i] = "."
        /\ Cardinality({i \in 1..Len(body) : body[i] = "."}) <= 1

\* a numeric part is zero: all its digits are 0
IsZero(s) == \A i \in 1..Len(s) : IsDigit(s[i]) => s[i] = "0"

\* C13: the second output is the input text unchanged, on success and on failure, padded
\* inputs included, and ok is false exactly when the input does not split on "/" into two
\* parts, or a part is not numeric, or the denominator is zero.
C13_OriginalPreserved ==
    phase = "converted" =>
        LET parts == Split(text, "/")
        IN  /\ conv.frac = text
            /\ ~conv.ok <=> \/ Len(parts) # 2
                            \/ ~IsNumeric(parts[1])
                            \/ ~IsNumeric(parts[2])
                            \/ IsZero(parts[2])

\* the text is "a/b" with a and b digit strings and b not zero
IsFraction(s) ==
    LET parts == Split(s, "/")
    IN  Len(parts) = 2 /\ AllDigits(parts[1]) /\ AllDigits(parts[2]) /\ ~IsZero(parts[2])

\* the value of a decimal text in thousandths, -1 when it has more than three decimals
Thousandths(s) ==
    LET f == ParseFloat(s)
    IN  IF ~f.ok \/ f.neg \/ f.scale > 3 THEN 0 - 1 ELSE f.num * Pow10(3 - f.scale)

\* C14: for a text "a/b" with a, b non-negative integers and b not zero, fracToDecimal
\* returns ok and a decimal that is a thousandth nearest to 1 + a/b; "5/2" gives 3.5 and
\* "1/3" gives 1.333.
C14_RoundedDecimal ==
    (phase = "converted" /\ IsFraction(text)) =>
        LET parts == Split(text, "/")
            a == DigitsVal(parts[1])
            b == DigitsVal(parts[2])
            v == Thousandths(conv.dec)
            diff == v * b - 1000 * (a + b)
        IN  /\ conv.ok
            /\ v >= 0
            /\ 2 * diff <= b /\ 0 - b <= 2 * diff
            /\ text = <<"5", "/", "2">> => conv.dec = <<"3", ".", "5">>
            /\ text = <<"1", "/", "3">> => conv.dec = <<"1", ".", "3", "3", "3">>

C14_Witness ==
    /\ phase = "converted"
    /\ text = <<"2", "/", "3">>
    /\ conv.ok
    /\ conv.dec = <<"1", ".", "6", "6", "7">>

(***************************************************************************)
(* Concurrent /sync-games handlers                                         *)
(***************************************************************************)
\* handler p executes a statement of its batch successfully
ConcRowStep(p) ==
    procs[p].pc = "batch" /\ procs'[p].i = procs[p].i + 1

\* C15: under every interleaving of the prune and per-row upsert steps of two concurrent
\* /sync-games handlers every reachable state has at most one row per game_id, every row
\* carries the non-key attributes of one single record of one of the two batches, and a
\* row upsert leaves its own record under its key (last write wins).
C15_ConcurrentUpserts ==
    /\ [](/\ \A r1 \in games : \A r2 \in games : r1.game_id = r2.game_id => r1 = r2
          /\ \A r \in games :
                \E p \in ProcIds : \E i \in 1..Len(procs[p].all) :
                    r.game_id = procs[p].all[i].GameID /\ GameAttrs(r) = WantedAttrs(procs[p].all[i]))
    /\ [][\A p \in ProcIds :
            ConcRowStep(p) =>
                LET g == procs[p].all[procs[p].i]
                IN  /\ {r \in games' : r.game_id = g.GameID} = {GameRow(g, now)}
                    /\ \A r \in games : r.game_id # g.GameID => r \in games']_vars

\* both handlers are in the middle of their batches, both batches write g1, with
\* different sources, and one of them already has
C15_Witness ==
    /\ \A p \in ProcIds : procs[p].pc = "batch" /\ procs[p].i = 2 /\ Len(procs[p].all) >= 2
    /\ procs[1].all[1].GameID = "g1" /\ procs[1].all[1].Source = "pre"
    /\ procs[2].all[1].GameID = "g1" /\ procs[2].all[1].Source = "live"
    /\ \E r \in games : r.game_id = "g1"

(***************************************************************************)
(* Data anomalies in a liveodds response                                   *)
(***************************************************************************)
\* the records that count: MG records and PA records with an odds key
Relevant(flat) ==
    LET counts(item) ==
            \/ TypeOf(item) = "MG"
            \/ TypeOf(item) = "PA" /\ DOMAIN item \cap {"OD", "ODD", "ODDS"} # {}
    IN  SelectSeq(flat, counts)

\* C16: fetchLiveOdds returns an error only when the GET or the decode failed, never for
\* what the decoded stream holds; a PA record without OD, ODD and ODDS and a record that
\* is neither MG nor PA emit nothing and leave the market context as it was (the result
\* is that of the stream without them), and the number of LiveOdds is the number of PA
\* records with at least one of the three keys.
C16_AnomaliesSkipped ==
    /\ phase = "failed" => call.err /\ odds = <<>>
    /\ phase \in {"decoded", "stored"} =>
        LET flat == Flatten(stream)
        IN  /\ phase = "decoded" => call.op = "fetchLiveOdds" /\ ~call.err
            /\ Len(odds) = Cardinality(Emitting(flat))
            /\ \A k \in 1..Len(odds) : odds[k].Raw = JsonMarshal(flat[EmitPos(flat, k)])
            /\ odds = fetchLiveOdds("g1", "soccer", <<Relevant(flat)>>, now)

C16_Witness ==
    /\ phase = "decoded"
    /\ ~call.err
    /\ Flatten(stream) = <<MG("M1", "N1"), EV, PA("S1", {"OD"})>>
    /\ Len(odds) = 1
    /\ odds[1].MarketID = "M1"

\* the text does not convert: it does not split on "/" into two parts, or a part is no
\* number, or the denominator is zero
Unconvertible(t) ==
    LET parts == Split(t, "/")
    IN  \/ Len(parts) # 2
        \/ ~IsNumeric(parts[1])
        \/ ~IsNumeric(parts[2])
        \/ IsZero(parts[2])

\* C19: a PA record whose odds text does not convert is still emitted, with an empty
\* price_dec and with price_frac equal to the odds text, and a successful insertLiveOdds
\* stores it like any other record.
C19_UnconvertibleEmitted ==
    phase \in {"decoded", "stored"} =>
        LET flat == Flatten(stream)
        IN  /\ Len(odds) = Cardinality(Emitting(flat))
            /\ \A k \in 1..Len(odds) :
                LET t == PriorityText(flat[EmitPos(flat, k)])
                IN  Unconvertible(t) =>
                        /\ odds[k].PriceDec = <<>>
                        /\ odds[k].PriceFrac = t
                        /\ (phase = "stored" /\ ~call.err) =>
                                OddRow(LastOddOf(odds, k)) \in liveodds

(***************************************************************************)
(* Failure reporting of the store operations                               *)
(***************************************************************************)
\* C17: in upsertGames and insertLiveOdds a failing prune DELETE gives an error and leaves
\* the table as it was; a failing row of the batch gives an error, never success, and the
\* rows the prune deleted stay deleted.
C17_FailureReporting ==
    [][(now' = now /\ call'.n > 0) =>
        LET f == call'.fault
        IN  /\ call'.err <=> f.kind # "none"
            /\ f.kind = "prune" => games' = games /\ liveodds' = liveodds
            /\ (f.kind = "row" /\ call'.op = "upsertGames") =>
                    /\ liveodds' = liveodds
                    /\ \A r \in games :
                        StaleGame(r, now) =>
                            \/ r \notin games'
                            \/ \E gs \in GameBatches : \E i \in 1..Len(gs) : r = GameRow(gs[i], now)
            /\ (f.kind = "row" /\ call'.op = "insertLiveOdds") =>
                    /\ games' = games
                    /\ \A r \in liveodds : StaleOdd(r, now) => r \notin liveodds']_vars

C17_Witness ==
    /\ call.op = "upsertGames"
    /\ call.fault.kind = "row"
    /\ call.err
    /\ call.deleted > 0
    /\ \A r \in games : ~StaleGame(r, now)
    /\ \E r \in liveodds : StaleOdd(r, now)

(***************************************************************************)
(* Live over pre-match, and games without a start                          *)
(***************************************************************************)
LiveSport(j) == IF j = 3 THEN "soccer" ELSE "tennis"

\* C18: when a pre-match feed and a live feed of one run both return a game id, the one
\* row stored for that id after a successful run has source live and the attributes of
\* the live record; every pre-match record of the aggregate list precedes every live one.
C18_LiveOverridesPre ==
    (phase = "idle" /\ feeds # <<>> /\ ~dbres.err) =>
        /\ \A x \in 1..Len(all) : \A y \in 1..Len(all) :
                (all[x].Source = "pre" /\ all[y].Source = "live") => x < y
        /\ \A i \in {1, 2} : \A j \in {3, 4} :
            \A a \in 1..Len(PreEntries(feeds[i])) : \A b \in 1..Len(LiveEntries(feeds[j])) :
                LET pre == PreEntries(feeds[i])[a]
                    live == LiveEntries(feeds[j])[b].v
                    rows == {r \in games : r.game_id = pre.game_id}
                IN  JStr(pre.game_id) = Lookup(live, "game_id") =>
                        /\ Cardinality(rows) = 1
                        /\ \A r \in rows :
                            /\ r.source = "live"
                            /\ r.sport = LiveSport(j)
                            /\ r.scores = TextOf(Lookup(live, "scores"))
                            /\ r.time_status = TextOf(Lookup(live, "time_status"))
                            /\ r.starts_at = parseUnixMaybe(SprintfChars(Lookup(live, "time")))

\* g2 comes from the pre-match tennis feed with a start and from the live tennis feed
\* without one: the row is the live one
C18_Witness ==
    /\ phase = "idle"
    /\ feeds # <<>>
    /\ ~dbres.err
    /\ Len(PreEntries(feeds[2])) = 1 /\ PreEntries(feeds[2])[1].game_id = "g2"
    /\ Len(LiveEntries(feeds[4])) = 1
    /\ \E r \in games :
        r.game_id = "g2" /\ r.source = "live" /\ r.starts_at.null /\ r.scores = "1-0"

\* upstream time texts that give no start: empty, blank, no number, zero, negative, <nil>
AbsentTimes ==
    {<<>>, <<" ">>, <<"x">>, <<"0">>, <<"-", "5">>, <<"<", "n", "i", "l", ">">>, <<"1", ".", "5">>}

\* C20: a games row without starts_at is never deleted: after every step the store holds
\* a row of its game_id, the same row or the one an upsert of the step wrote; texts that
\* are empty, not numeric or not positive give no start.
C20_NoStartNeverEvicted ==
    /\ [](\A t \in AbsentTimes : parseUnixMaybe(t) = Null)
    /\ [][\A r \in games :
            r.starts_at.null =>
                \E r2 \in games' :
                    /\ r2.game_id = r.game_id
                    /\ \/ r2 = r
                       \/ UpsertStep /\ \E i \in 1..Len(all) : r2 = GameRow(all[i], now)]_vars

\* a row without a start, written on an earlier date, is there after a run whose prune
\* deleted another row
C20_Witness ==
    /\ phase = "idle"
    /\ ~dbres.err
    /\ dbres.deleted > 0
    /\ \E r \in games :
        r.starts_at.null /\ CurrentDate(r.updated_at) < CurrentDate(now)

=============================================================================
